---- MODULE Spec2Model ----
(***************************************************************************)
(* Aviation Logbook Audit (src/app.py): a Streamlit script that turns the  *)
(* uploaded files into a flat image list, sends the images to a            *)
(* structured-extraction service in batches of five, threads the previous  *)
(* batch's result into the next request, and renders the final audit.      *)
(*                                                                         *)
(* The script is re-executed top to bottom on every interaction; the only  *)
(* state that survives a script run is st.session_state (audit_results,    *)
(* processed_images) and the widget state (the uploaded files).            *)
(*                                                                         *)
(* Interactions (adding or removing a file, pressing a button, rerunning)  *)
(* are taken between script runs; a script run ends at its last line, at   *)
(* st.rerun(), or at an uncaught exception.  The variables requests,       *)
(* returns, stale and hist record what the script did and are not read by  *)
(* it.                                                                     *)
(***************************************************************************)
EXTENDS Naturals, Sequences, FiniteSets, TLC

(* ------------------------------ bounds --------------------------------- *)

\* most files the user puts into the uploader at once
MaxFiles == 2

\* most pages of an uploaded PDF
MaxPages == 6

\* most entries of a list-valued section of an audit (render specification)
MaxEntries == 2

(* --------------------------- program constants ------------------------- *)

\* batch_size = 5
BatchSize == 5

\* Python's None
None == "None"

\* The audits the extraction service can return.  The script never looks
\* inside an AviationLogbookAudit while batching, so two distinguishable
\* values stand for "whatever the service parsed".
Audits == {"auditA", "auditB"}

\* response.choices[0].message.parsed is Optional: the client library
\* returns a message whose parsed field is None, without raising, when the
\* model answers with a refusal instead of schema-conforming content.
Parsed == Audits \cup {None}

\* MIME types the uploader hands over (type=["jpg","png","jpeg","pdf"]),
\* as <<main type, subtype>>
PdfMime == <<"application", "pdf">>
PngMime == <<"image", "png">>
JpegMime == <<"image", "jpeg">>

Min(a, b) == IF a < b THEN a ELSE b

VARIABLES
    uploaded_files,     \* value of st.file_uploader: sequence of files
    audit_results,      \* st.session_state.audit_results
    processed_images,   \* st.session_state.processed_images
    pc,                 \* where the script is: "idle", "loop", "call", "rerun"
    all_images,         \* all_images of the current script run
    batch_num,          \* loop variable of the batch loop
    total_batches,      \* total_batches of the current script run
    messages,           \* the request built for the current batch, or None
    requests,           \* requests this script run has sent to the service
    returns,            \* values this script run got back from the service
    stale,              \* audit_results at the moment Generate was pressed
    hist,               \* the most recent Generate run, across script runs
    view,               \* what the page shows
    shown,              \* the audit the results branch renders, or None
    tab,                \* render specification: the tab being drawn
    section,            \* render specification: the section handed to it
    table               \* render specification: the table given to st.table

vars == <<uploaded_files, audit_results, processed_images, pc, all_images,
          batch_num, total_batches, messages, requests, returns, stale,
          hist, view, shown, tab, section, table>>

runVars == <<uploaded_files, audit_results, processed_images, pc, all_images,
             batch_num, total_batches, messages, requests, returns, stale,
             hist, view, shown>>

renderVars == <<tab, section, table>>

(* ----------------------------- file loading ---------------------------- *)

\* what a file in the uploader can be: a PDF of 1..MaxPages pages or an image
FileKinds ==
    {[type |-> PdfMime, pages |-> n] : n \in 1..MaxPages}
        \cup {[type |-> PngMime, pages |-> 1], [type |-> JpegMime, pages |-> 1]}

\* the uploader's content for a sequence of kinds; a file is named by its
\* position in the uploader
Named(kinds) ==
    [i \in 1..Len(kinds) |-> [name |-> i, type |-> kinds[i].type, pages |-> kinds[i].pages]]

KindsOf(files) ==
    [i \in 1..Len(files) |-> [type |-> files[i].type, pages |-> files[i].pages]]

\* pdf_to_images: one png image per page, named "<file>_page_<n+1>"
pdf_to_images(pdf_file) ==
    [p \in 1..pdf_file.pages |->
        [data |-> <<"pixmap", pdf_file.name, p - 1>>,
         type |-> "png",
         name |-> <<pdf_file.name, "_page_", (p - 1) + 1>>]]

\* process_uploaded_files: PDFs are expanded in place, other files are kept
RECURSIVE process_uploaded_files(_)
process_uploaded_files(files) ==
    IF files = <<>> THEN <<>>
    ELSE LET uploaded_file == Head(files)
             mine == IF uploaded_file.type = PdfMime
                     THEN pdf_to_images(uploaded_file)
                     ELSE <<[data |-> <<"bytes", uploaded_file.name>>,
                             type |-> uploaded_file.type[2],
                             name |-> uploaded_file.name]>>
         IN  mine \o process_uploaded_files(Tail(files))

(* --------------------------- request building -------------------------- *)

FirstSystemMessage == "Analyze the provided logbook images and extract"
UpdateSystemMessage == "Now analyze these additional images and UPDATE"
FirstUserText == "Please analyze these aviation logbook images"
UpdateUserHead == "Here is the current audit report from previous images: "
UpdateUserTail == ". Now analyze these additional logbook images and update"

\* AviationLogbookAudit.model_dump_json()
model_dump_json(audit) == <<"json", audit>>

\* base64.b64encode(data).decode("utf-8")
b64encode(data) == <<"b64", data>>

\* f"data:image/{type};base64,{base64_image}"
DataUrl(image_info) ==
    <<"data:image/", image_info.type, ";base64,", b64encode(image_info.data)>>

\* mutant: floor division, the partial last batch is dropped
TotalBatches_floor(images) == Len(images) \div BatchSize

\* (len(all_images) + batch_size - 1) // batch_size
TotalBatches(images) == (Len(images) + BatchSize - 1) \div BatchSize

\* mutant: the stride is one short, consecutive batches overlap
StartIdx_overlap(n) == n * (BatchSize - 1)

\* start_idx = batch_num * batch_size
StartIdx(n) == n * BatchSize

\* end_idx = min(start_idx + batch_size, len(all_images))
EndIdx(n, images) == Min(StartIdx(n) + BatchSize, Len(images))

\* all_images[start_idx:end_idx]  (Python slices are 0-based, half open)
BatchImages(n, images) == SubSeq(images, StartIdx(n) + 1, EndIdx(n, images))

\* if st.session_state.audit_results is None: ... else: ...
SystemMessage(prior) ==
    IF prior = None THEN FirstSystemMessage ELSE UpdateSystemMessage

UserMessage(prior) ==
    IF prior = None THEN <<FirstUserText>>
    ELSE <<UpdateUserHead, model_dump_json(prior), UpdateUserTail>>

\* messages = [system, user(text + one image_url part per batch image)]
BuildMessages(prior, batch_images) ==
    [system |-> SystemMessage(prior),
     content |-> <<[type |-> "text", body |-> UserMessage(prior)]>>
                 \o [i \in 1..Len(batch_images) |->
                        [type |-> "image_url", body |-> DataUrl(batch_images[i])]]]

(* ------------------------------ page view ------------------------------ *)

\* The branch a script run without a button click ends in:
\*   if uploaded_files: ... elif st.session_state.audit_results: ... / else: st.info
PageView(files, audit) ==
    IF files = <<>> THEN "info"
    ELSE IF audit # None THEN "results"
    ELSE "images"

PageShown(files, audit) ==
    IF files # <<>> /\ audit # None THEN audit ELSE None

NoRun == [outcome |-> "none", images |-> 0, calls |-> 0, returned |-> 0, latest |-> None]

Init ==
    /\ uploaded_files = <<>>
    /\ audit_results = None
    /\ processed_images = 0
    /\ pc = "idle"
    /\ all_images = <<>>
    /\ batch_num = 0
    /\ total_batches = 0
    /\ messages = None
    /\ requests = <<>>
    /\ returns = <<>>
    /\ stale = None
    /\ hist = NoRun
    /\ view = "info"
    /\ shown = None
    /\ tab = "none"
    /\ section = None
    /\ table = None

\* A script run in which no button is pressed, over the files `files`.
ScriptRun(files) ==
    /\ uploaded_files' = files
    /\ all_images' = process_uploaded_files(files)
    /\ pc' = "idle"
    /\ batch_num' = 0
    /\ total_batches' = 0
    /\ messages' = None
    /\ requests' = <<>>
    /\ returns' = <<>>
    /\ view' = PageView(files, audit_results)
    /\ shown' = PageShown(files, audit_results)
    /\ stale' = None
    /\ UNCHANGED <<audit_results, processed_images, hist>>

\* The user adds a file to the uploader; the script runs again.
AddFile ==
    /\ pc = "idle"
    /\ Len(uploaded_files) < MaxFiles
    /\ \E kind \in FileKinds :
          ScriptRun(Named(Append(KindsOf(uploaded_files), kind)))
    /\ UNCHANGED renderVars

\* The user removes a file from the uploader; the script runs again.
RemoveFile ==
    /\ pc = "idle"
    /\ \E i \in 1..Len(uploaded_files) :
          ScriptRun(Named(SubSeq(KindsOf(uploaded_files), 1, i - 1)
                            \o SubSeq(KindsOf(uploaded_files), i + 1, Len(uploaded_files))))
    /\ UNCHANGED renderVars

\* The user reruns the script (Rerun in the app menu) with nothing changed.
Rerun ==
    /\ pc = "idle"
    /\ ScriptRun(uploaded_files)
    /\ UNCHANGED renderVars

\* The script run that st.rerun() asked for.
StRerun ==
    /\ pc = "rerun"
    /\ ScriptRun(uploaded_files)
    /\ UNCHANGED renderVars

\* mutant: the session state is not reset before the loop
ClickGenerate_keepstate ==
    /\ pc = "idle"
    /\ uploaded_files # <<>>
    /\ all_images' = process_uploaded_files(uploaded_files)
    /\ total_batches' = TotalBatches(all_images')
    /\ batch_num' = 0
    /\ pc' = "loop"
    /\ messages' = None
    /\ requests' = <<>>
    /\ returns' = <<>>
    /\ stale' = audit_results
    /\ hist' = [outcome |-> "running", images |-> Len(all_images'),
                calls |-> 0, returned |-> 0, latest |-> None]
    /\ view' = "progress"
    /\ shown' = None
    /\ UNCHANGED <<uploaded_files, audit_results, processed_images, renderVars>>

\* "Generate Logbook Audit Report" is pressed: the script runs up to the batch
\* loop: total_batches is computed and the session state is reset.
ClickGenerate ==
    /\ pc = "idle"
    /\ uploaded_files # <<>>
    /\ all_images' = process_uploaded_files(uploaded_files)
    /\ total_batches' = TotalBatches(all_images')
    /\ audit_results' = None
    /\ processed_images' = 0
    /\ batch_num' = 0
    /\ pc' = "loop"
    /\ messages' = None
    /\ requests' = <<>>
    /\ returns' = <<>>
    /\ stale' = audit_results
    /\ hist' = [outcome |-> "running", images |-> Len(all_images'),
                calls |-> 0, returned |-> 0, latest |-> None]
    /\ view' = "progress"
    /\ shown' = None
    /\ UNCHANGED <<uploaded_files, renderVars>>

\* One loop iteration up to the service call: the batch is sliced, the
\* prompts are chosen from audit_results, and the request is sent.
BuildRequest ==
    /\ pc = "loop"
    /\ batch_num < total_batches
    /\ messages' = BuildMessages(audit_results, BatchImages(batch_num, all_images))
    /\ requests' = Append(requests, messages')
    /\ hist' = [hist EXCEPT !.calls = @ + 1]
    /\ pc' = "call"
    /\ UNCHANGED <<uploaded_files, audit_results, processed_images, all_images,
                   batch_num, total_batches, returns, stale, view, shown, renderVars>>

\* mutant: only the first batch's result is stored
ServiceReturn_keepfirst ==
    /\ pc = "call"
    /\ \E parsed \in Parsed :
          /\ audit_results' = IF batch_num = 0 THEN parsed ELSE audit_results
          /\ returns' = Append(returns, parsed)
          /\ hist' = [hist EXCEPT !.returned = @ + 1, !.latest = parsed]
    /\ processed_images' = EndIdx(batch_num, all_images)
    /\ batch_num' = batch_num + 1
    /\ messages' = None
    /\ pc' = "loop"
    /\ UNCHANGED <<uploaded_files, all_images, total_batches, requests, stale,
                   view, shown, renderVars>>

\* The call returns: both session-state fields are updated and the loop
\* moves to the next batch.
ServiceReturn ==
    /\ pc = "call"
    /\ \E parsed \in Parsed :
          /\ audit_results' = parsed
          /\ returns' = Append(returns, parsed)
          /\ hist' = [hist EXCEPT !.returned = @ + 1, !.latest = parsed]
    /\ processed_images' = EndIdx(batch_num, all_images)
    /\ batch_num' = batch_num + 1
    /\ messages' = None
    /\ pc' = "loop"
    /\ UNCHANGED <<uploaded_files, all_images, total_batches, requests, stale,
                   view, shown, renderVars>>

\* mutant: the exception is swallowed and the loop goes on to the next batch
ServiceError_swallowed ==
    /\ pc = "call"
    /\ pc' = "loop"
    /\ batch_num' = batch_num + 1
    /\ messages' = None
    /\ UNCHANGED <<uploaded_files, audit_results, processed_images, all_images,
                   total_batches, requests, returns, stale, hist, view, shown,
                   renderVars>>

\* The call raises (network, rate limit, length/content-filter finish): the
\* exception is not caught, the script run ends with the error on the page.
ServiceError ==
    /\ pc = "call"
    /\ pc' = "idle"
    /\ hist' = [hist EXCEPT !.outcome = "aborted"]
    /\ view' = "error"
    /\ UNCHANGED <<uploaded_files, audit_results, processed_images, all_images,
                   batch_num, total_batches, messages, requests, returns, stale,
                   shown, renderVars>>

\* The loop is exhausted: final progress update, then st.rerun().
Complete ==
    /\ pc = "loop"
    /\ batch_num >= total_batches
    /\ pc' = "rerun"
    /\ hist' = [hist EXCEPT !.outcome = "completed"]
    /\ UNCHANGED <<uploaded_files, audit_results, processed_images, all_images,
                   batch_num, total_batches, messages, requests, returns, stale,
                   view, shown, renderVars>>

\* "Reset and Start Over" is pressed (the button exists only in the results
\* branch): the session state is cleared, then st.rerun() ends the script run
\* before any tab is drawn.
ClickReset ==
    /\ pc = "idle"
    /\ view = "results"
    /\ audit_results' = None
    /\ processed_images' = 0
    /\ pc' = "rerun"
    /\ hist' = NoRun
    /\ requests' = <<>>
    /\ returns' = <<>>
    /\ view' = "reset"
    /\ shown' = None
    /\ UNCHANGED <<uploaded_files, all_images, batch_num, total_batches, messages,
                   stale, renderVars>>

Next ==
    \/ AddFile
    \/ RemoveFile
    \/ Rerun
    \/ StRerun
    \/ ClickGenerate
    \/ BuildRequest
    \/ ServiceReturn
    \/ ServiceError
    \/ Complete
    \/ ClickReset

Spec == Init /\ [][Next]_vars

(* ------------------------------ rendering ------------------------------- *)
(* The tabs of the results branch, as functions from a section of the audit *)
(* to the table handed to st.table.  The emoji that prefix the cells are    *)
(* written as words: "(check)" is the white check mark, "(cross)" the       *)
(* cross mark, "(warning)" the warning sign.                                *)

\* Optional[str] fields as the service can fill them
OptDates == {None, "", "2024-05-01"}
Notes == {"", "see entry"}

\* Python's `x or default` on an Optional[str]: None and "" are falsy
OrDefault(x, default) == IF x = None \/ x = "" THEN default ELSE x

\* "(check) Yes" if flag else "(cross) No"
YesNo(flag) == IF flag THEN "(check) Yes" ELSE "(cross) No"

LogbookConditions ==
    [all_original_logs_present : BOOLEAN, chronologically_organized : BOOLEAN,
     legible_handwriting : BOOLEAN, gaps_in_entries : BOOLEAN,
     scanned_digital_copies_exist : BOOLEAN]

InspectionEntries ==
    [inspection_type : {"Annual"}, last_completed : OptDates, next_due : OptDates,
     completed : BOOLEAN, notes : Notes]

ADEntries ==
    [ad_number : {"2011-10-09"}, description : {"Seat rail inspection"},
     complied_date : OptDates, method_of_compliance : {None, "Inspection"},
     recurring : BOOLEAN, next_due : {None, "2025-05-01"}, notes : Notes]

ComponentEntries ==
    [component : {"Engine"}, time_since_overhaul : {"", "1200"},
     next_due : {"", "2000"}, notes : Notes]

\* lists of at most MaxEntries entries
ListsOf(S) == UNION {[1..n -> S] : n \in 0..MaxEntries}

\* mutant: gaps_in_entries rendered like the other booleans
condition_data_uniform(c) ==
    [Condition |-> <<"All Original Logs Present", "Chronologically Organized",
                     "Legible Handwriting", "Gaps in Entries", "Digital Copies Exist">>,
     Status |-> <<YesNo(c.all_original_logs_present),
                  YesNo(c.chronologically_organized),
                  YesNo(c.legible_handwriting),
                  YesNo(c.gaps_in_entries),
                  YesNo(c.scanned_digital_copies_exist)>>]

\* tab2: condition_data
condition_data(c) ==
    [Condition |-> <<"All Original Logs Present", "Chronologically Organized",
                     "Legible Handwriting", "Gaps in Entries", "Digital Copies Exist">>,
     Status |-> <<YesNo(c.all_original_logs_present),
                  YesNo(c.chronologically_organized),
                  YesNo(c.legible_handwriting),
                  IF c.gaps_in_entries THEN "(warning) Yes" ELSE "(check) No",
                  YesNo(c.scanned_digital_copies_exist)>>]

\* tab3: inspection_data, or the st.info text when the list is empty
inspection_data(inspections) ==
    IF inspections = <<>> THEN "No inspection information found in the images."
    ELSE LET rows == 1..Len(inspections)
         IN  [InspectionType |-> [i \in rows |-> inspections[i].inspection_type],
              LastCompleted |->
                  [i \in rows |-> OrDefault(inspections[i].last_completed, "Not specified")],
              NextDue |-> [i \in rows |-> OrDefault(inspections[i].next_due, "Not specified")],
              Completed |-> [i \in rows |-> YesNo(inspections[i].completed)],
              Notes |-> [i \in rows |-> inspections[i].notes]]

\* tab4: ad_data, or the st.info text when the list is empty
ad_data(ads) ==
    IF ads = <<>> THEN "No airworthiness directive information found in the images."
    ELSE LET rows == 1..Len(ads)
         IN  [ADNumber |-> [i \in rows |-> ads[i].ad_number],
              Description |-> [i \in rows |-> ads[i].description],
              CompliedDate |-> [i \in rows |-> OrDefault(ads[i].complied_date, "Not specified")],
              Method |->
                  [i \in rows |-> OrDefault(ads[i].method_of_compliance, "Not specified")],
              Recurring |-> [i \in rows |-> YesNo(ads[i].recurring)],
              NextDue |-> [i \in rows |-> OrDefault(ads[i].next_due, "Not specified")],
              Notes |-> [i \in rows |-> ads[i].notes]]

\* tab5: component_data, or the st.info text when the list is empty
component_data(components) ==
    IF components = <<>> THEN "No component time information found in the images."
    ELSE LET rows == 1..Len(components)
         IN  [Component |-> [i \in rows |-> components[i].component],
              TimeSinceOverhaul |-> [i \in rows |-> components[i].time_since_overhaul],
              NextDue |-> [i \in rows |-> components[i].next_due],
              Notes |-> [i \in rows |-> components[i].notes]]

ShowCondition ==
    /\ tab = "none"
    /\ \E c \in LogbookConditions :
          /\ section' = c
          /\ table' = condition_data(c)
    /\ tab' = "Logbook Condition"
    /\ UNCHANGED runVars

ShowInspections ==
    /\ tab = "none"
    /\ \E inspections \in ListsOf(InspectionEntries) :
          /\ section' = inspections
          /\ table' = inspection_data(inspections)
    /\ tab' = "Inspections"
    /\ UNCHANGED runVars

ShowADs ==
    /\ tab = "none"
    /\ \E ads \in ListsOf(ADEntries) :
          /\ section' = ads
          /\ table' = ad_data(ads)
    /\ tab' = "Airworthiness Directives"
    /\ UNCHANGED runVars

ShowComponents ==
    /\ tab = "none"
    /\ \E components \in ListsOf(ComponentEntries) :
          /\ section' = components
          /\ table' = component_data(components)
    /\ tab' = "Time & Components"
    /\ UNCHANGED runVars

\* A new script run starts with an empty page.
NewPage ==
    /\ tab # "none"
    /\ tab' = "none"
    /\ section' = None
    /\ table' = None
    /\ UNCHANGED runVars

NextRender ==
    \/ NewPage
    \/ ShowCondition
    \/ ShowInspections
    \/ ShowADs
    \/ ShowComponents

SpecRender == Init /\ [][NextRender]_vars

(* ------------------------------- claims --------------------------------- *)

\* ceil(n / d), stated without the code's formula
CeilDiv(n, d) == CHOOSE t \in 0..n : t * d >= n /\ (t = 0 \/ (t - 1) * d < n)

\* the prior result a request carries in its user text, None when it carries none
PriorOf(msg) ==
    LET text == msg.content[1].body
    IN  IF Len(text) = 3 THEN text[2][2] ELSE None

\* the images of a request, decoded back to <<subtype, bytes>>
ImagesOf(msg) ==
    [i \in 1..(Len(msg.content) - 1) |->
        <<msg.content[i + 1].body[2], msg.content[i + 1].body[4][2]>>]

RECURSIVE SentImages(_)
SentImages(reqs) ==
    IF reqs = <<>> THEN <<>>
    ELSE SentImages(SubSeq(reqs, 1, Len(reqs) - 1)) \o ImagesOf(reqs[Len(reqs)])

\* the script is inside a Generate run, or at the st.rerun() that ends one
InRun == pc \in {"loop", "call", "rerun"} /\ hist.outcome \in {"running", "completed"}

\* C1: a run over L >= 1 images forms ceil(L/5) batches; every batch but the
\* last has 5 images, the last has L mod 5 images (5 when L mod 5 = 0).
C1_BatchCountAndSizes ==
    InRun =>
        LET L == Len(all_images)
            T == CeilDiv(L, 5)
        IN  /\ L >= 1
            /\ total_batches = T
            /\ Len(requests) <= T
            /\ hist.outcome = "completed" => Len(requests) = T
            /\ \A k \in 1..Len(requests) :
                  Len(ImagesOf(requests[k])) =
                      IF k < T THEN 5 ELSE IF L % 5 = 0 THEN 5 ELSE L % 5

C1_Witness ==
    /\ pc = "rerun"
    /\ hist.outcome = "completed"
    /\ Len(all_images) = 12
    /\ Len(requests) = 3
    /\ Len(ImagesOf(requests[3])) = 2

\* C2: in a multi-batch run the request of batch k > 1 is built after batch
\* k-1 has returned and carries exactly the result batch k-1 returned, which
\* is not none.
C2_PriorIsPreviousResult ==
    \A k \in 2..Len(requests) :
        /\ Len(returns) >= k - 1
        /\ PriorOf(requests[k]) = returns[k - 1]
        /\ PriorOf(requests[k]) # None

\* C3: a run over 1 to 5 images calls the service exactly once, with no prior
\* result, also when session state held a result when Generate was pressed.
C3_SingleBatchFresh ==
    (hist.outcome # "none" /\ hist.images <= 5) =>
        /\ hist.calls <= 1
        /\ hist.outcome \in {"completed", "aborted"} => hist.calls = 1
        /\ Len(requests) <= 1
        /\ \A k \in 1..Len(requests) :
              /\ PriorOf(requests[k]) = None
              /\ requests[k].system = FirstSystemMessage

C3_Witness ==
    /\ pc = "rerun"
    /\ hist.outcome = "completed"
    /\ hist.images \in 1..5
    /\ stale # None
    /\ Len(requests) = 1
    /\ PriorOf(requests[1]) = None

\* C4: a run in which no call fails makes ceil(L/5) calls, and the result
\* displayed after it is the value the last call returned.
C4_CallsAndDisplayedResult ==
    hist.outcome = "completed" =>
        /\ hist.calls = CeilDiv(hist.images, 5)
        /\ hist.returned = hist.calls
        /\ view = "results" => shown = hist.latest
        /\ (pc = "idle" /\ uploaded_files # <<>> /\ hist.latest # None)
              => view = "results"

C4_Witness ==
    /\ pc = "idle"
    /\ hist.outcome = "completed"
    /\ hist.images = 12
    /\ hist.calls = 3
    /\ view = "results"
    /\ shown = "auditB"
    /\ hist.latest = "auditB"

\* C5: the batches are contiguous slices in input order that partition the
\* image list: the images of requests 1..T, concatenated, are the input list.
C5_BatchesPartitionInput ==
    LET input == [i \in 1..Len(all_images) |-> <<all_images[i].type, all_images[i].data>>]
        sent == SentImages(requests)
    IN  /\ Len(sent) <= Len(input)
        /\ sent = SubSeq(input, 1, Len(sent))
        /\ (pc = "rerun" /\ hist.outcome = "completed") => sent = input

C5_Witness ==
    /\ pc = "rerun"
    /\ hist.outcome = "completed"
    /\ Len(requests) = 3
    /\ Len(uploaded_files) = 2
    /\ Len(SentImages(requests)) = 11

\* C6: a failed call aborts the run: no request for a later batch, no retry,
\* and the run never reaches its completion step.
C6_FailureAbortsRun ==
    [][ /\ (pc = "call" /\ hist'.returned = hist.returned)
            => /\ pc' = "idle"
               /\ hist'.outcome = "aborted"
               /\ hist'.calls = hist.calls
               /\ requests' = requests
        /\ hist.outcome = "aborted"
            => \/ hist' = hist /\ pc' = "idle" /\ requests' \in {requests, <<>>}
               \/ hist'.outcome = "running" /\ hist'.calls = 0 /\ requests' = <<>>
               \/ hist' = NoRun
      ]_vars

C6_Witness ==
    /\ hist.outcome = "aborted"
    /\ hist.returned = 1
    /\ hist.calls = 2
    /\ CeilDiv(hist.images, 5) = 3
    /\ Len(requests) = 2

\* C7: in the Logbook Condition table gaps_in_entries renders true as the
\* warning-flagged Yes and false as the check-marked No; every other boolean
\* of the table renders true as check-marked Yes and false as crossed No.
C7_GapsPolarityInverted ==
    tab = "Logbook Condition" =>
        /\ table.Status[4] = IF section.gaps_in_entries THEN "(warning) Yes" ELSE "(check) No"
        /\ table.Status[1] = IF section.all_original_logs_present THEN "(check) Yes" ELSE "(cross) No"
        /\ table.Status[2] = IF section.chronologically_organized THEN "(check) Yes" ELSE "(cross) No"
        /\ table.Status[3] = IF section.legible_handwriting THEN "(check) Yes" ELSE "(cross) No"
        /\ table.Status[5] = IF section.scanned_digital_copies_exist THEN "(check) Yes" ELSE "(cross) No"
        /\ table.Condition[4] = "Gaps in Entries"

C7_Witness ==
    /\ tab = "Logbook Condition"
    /\ section.gaps_in_entries
    /\ ~section.legible_handwriting
    /\ table.Status[4] = "(warning) Yes"
    /\ table.Status[3] = "(cross) No"

\* C8: in every table with a Notes column, an entry whose notes are empty is
\* rendered with the placeholder "Not specified" in that column.
C8_EmptyNotesPlaceholder ==
    (tab \in {"Inspections", "Airworthiness Directives", "Time & Components"}
        /\ section # <<>>)
      => \A i \in 1..Len(section) :
            section[i].notes = "" => table.Notes[i] = "Not specified"

\* C9: whenever a script run reaches the results branch, the audit it shows
\* is the last batch's output of a run that processed all of its batches.
C9_ResultsOnlyAfterCompleteRun ==
    view = "results" => (hist.outcome = "completed" /\ shown = hist.latest)

\* C10: processed_images is the number of images in the batches that have
\* returned in the most recent run (min(5j, L), 0 after a reset),
\* audit_results is the latest returned value, and audit_results is none
\* exactly when processed_images is 0.
C10_SessionStateInvariant ==
    /\ processed_images = Min(5 * hist.returned, hist.images)
    /\ audit_results = hist.latest
    /\ (audit_results = None) <=> (processed_images = 0)

====
